---- MODULE Spec2Model ----
(***************************************************************************)
(* TCP-over-UART bridge: tcp-server.js (ingress, part_000 lines 1-493) and *)
(* tcp-client.js (egress, part_000 lines 495-908).                         *)
(*                                                                         *)
(* Three specifications share the module:                                  *)
(*   SpecFrame  the frame codec and PacketStream at byte level;            *)
(*   Spec       the two session managers, the two directions of the serial *)
(*              link and the two gracefulShutdown sequences, with frames   *)
(*              as records;                                                *)
(*   SpecLink   the session managers of Spec without signals, on a link    *)
(*              that also carries frames neither program writes.           *)
(***************************************************************************)
EXTENDS Integers, Sequences, FiniteSets, TLC

VARIABLES
    \* ---- byte level (SpecFrame) ----
    frames,      \* the frames F1..Fn handed to createPacket
    oversize,    \* TRUE when a hand-made header follows the frames
    wireBytes,   \* bytes on the serial link not yet read
    buffer,      \* PacketStream.buffer
    packets,     \* the 'packet' events emitted so far
    \* ---- session level (Spec, SpecLink) ----
    serial,        \* serialPort of each side: "opening", "open", "closed"
    listening,     \* the ingress servers still accept connections
    clientsByPort, \* ingress: Map localPort -> Map clientId -> clientInfo
    iSock,         \* ingress: state of the client socket of each id
    iPort,         \* ingress: clientInfo.localPort of each id
    clients,       \* egress: Map clientId -> clientInfo
    eSock,         \* egress: state and target of each dialled socket
    wire,          \* frames written to the link and not yet handled by the peer
    sd,            \* the gracefulShutdown invocations of each side
    exitCode,      \* process.exit status of each side, -1 while running
    \* ---- what happened so far ----
    nSent,         \* chunks each client has sent to ingress
    nReply,        \* chunks the target has sent on the sockets of each id
    written,       \* bytes written to each target socket
    iwritten,      \* bytes written to each client socket
    emitted,       \* frames each side has written for each id, by command
    peerEnded,     \* sockets ended on a Disconnect frame of the peer
    used,          \* signals delivered and foreign frames put on the link
    warned         \* the commands each side has logged as unknown

fvars == <<frames, oversize, wireBytes, buffer, packets>>

svars == <<serial, listening, clientsByPort, iSock, iPort, clients, eSock, wire,
           sd, exitCode>>

hvars == <<nSent, nReply, written, iwritten, emitted, peerEnded, used, warned>>

vars == <<fvars, svars, hvars>>

----------------------------------------------------------------------------
(* Bounds of the byte-level model *)
MaxFrames == 2
MaxData == 1

(* Command bytes *)
CMD_DATA == 1
CMD_CONNECT == 2
CMD_DISCONNECT == 3
CMD_CLIENT_CLOSE == 4
CMD_PROGRAM_CLOSE == 5

HEADER_LEN == 27

(* The framing ceiling the specification recommends: 16 MiB *)
Ceiling == 16777216

----------------------------------------------------------------------------
(* Characters and number formatting *)

HexDigits == <<"0","1","2","3","4","5","6","7","8","9","a","b","c","d","e","f">>
HexUpper  == <<"0","1","2","3","4","5","6","7","8","9","A","B","C","D","E","F">>
DecDigits == <<"0","1","2","3","4","5","6","7","8","9">>

IsHexChar(c) == \E i \in 1..16 : HexDigits[i] = c \/ HexUpper[i] = c
HexVal(c) == (CHOOSE i \in 1..16 : HexDigits[i] = c \/ HexUpper[i] = c) - 1

IsDigit(c) == \E i \in 1..10 : DecDigits[i] = c
DigitVal(c) == (CHOOSE i \in 1..10 : DecDigits[i] = c) - 1

\* Buffer.from(str, 'hex'): two hex characters per byte, either case
BufferFromHex(s) ==
    [i \in 1..(Len(s) \div 2) |-> HexVal(s[2*i - 1]) * 16 + HexVal(s[2*i])]

\* buf.toString('hex'): two lower-case digits per byte
ToHexString(bytes) ==
    [i \in 1..(2 * Len(bytes)) |->
        IF i % 2 = 1 THEN HexDigits[(bytes[(i + 1) \div 2] \div 16) + 1]
                     ELSE HexDigits[(bytes[i \div 2] % 16) + 1]]

RECURSIVE SplitDots(_)
\* str.split('.')
SplitDots(s) ==
    IF \A i \in 1..Len(s) : s[i] # "."
    THEN <<s>>
    ELSE LET k == CHOOSE i \in 1..Len(s) :
                      s[i] = "." /\ \A j \in 1..(i-1) : s[j] # "."
         IN  <<SubSeq(s, 1, k - 1)>> \o SplitDots(SubSeq(s, k + 1, Len(s)))

RECURSIVE DigitsValue(_, _)
DigitsValue(s, acc) ==
    IF s = <<>> \/ ~IsDigit(Head(s)) THEN acc
    ELSE DigitsValue(Tail(s), acc * 10 + DigitVal(Head(s)))

\* parseInt(part) || 0: the leading decimal digits, 0 when there is none (NaN)
ParseIntOr0(part) ==
    IF part = <<>> \/ ~IsDigit(Head(part)) THEN 0 ELSE DigitsValue(part, 0)

RECURSIVE DecString(_)
\* String(n) of a byte
DecString(n) ==
    IF n < 10 THEN <<DecDigits[n + 1]>>
    ELSE DecString(n \div 10) \o <<DecDigits[(n % 10) + 1]>>

\* String(n) for every byte value
DecStringOf == [n \in 0..255 |-> DecString(n)]

RECURSIVE JoinDots(_)
\* Array.from(targetIp).join('.')
JoinDots(bytes) ==
    IF bytes = <<>> THEN <<>>
    ELSE IF Len(bytes) = 1 THEN DecStringOf[bytes[1]]
    ELSE DecStringOf[Head(bytes)] \o <<".">> \o JoinDots(Tail(bytes))

----------------------------------------------------------------------------
(* Buffer reads and writes *)

\* buf.readUInt32LE(off)
ReadUInt32LE(buf, off) ==
    buf[off + 1] + buf[off + 2] * 256 + buf[off + 3] * 65536 + buf[off + 4] * 16777216

ReadUInt8(buf, off) == buf[off + 1]

ReadUInt16BE(buf, off) == buf[off + 1] * 256 + buf[off + 2]

ReadUInt32BE(buf, off) ==
    buf[off + 1] * 16777216 + buf[off + 2] * 65536 + buf[off + 3] * 256 + buf[off + 4]

WriteUInt16BE(n) == <<(n \div 256) % 256, n % 256>>

WriteUInt32BE(n) ==
    <<(n \div 16777216) % 256, (n \div 65536) % 256, (n \div 256) % 256, n % 256>>

\* src.copy(dst, off) into a zero-filled field of width w
CopyInto(src, w) == [i \in 1..w |-> IF i <= Len(src) THEN src[i] ELSE 0]

----------------------------------------------------------------------------
(* createPacket *)

\* the 16-byte id field: a 32-character hex string, or a UUID with hyphens
ClientIdBuffer(clientId) ==
    IF Len(clientId) = 32
    THEN BufferFromHex(clientId)
    ELSE BufferFromHex(SelectSeq(clientId, LAMBDA c : c # "-"))

\* the 4-byte address field: zero for the empty host, else the first four
\* dot-separated parts, each parseInt(part) || 0, stored modulo 256
IpBuffer(targetHost) ==
    IF targetHost = <<>>
    THEN <<0, 0, 0, 0>>
    ELSE LET parts == SplitDots(targetHost)
             ipParts == [i \in 1..Len(parts) |-> ParseIntOr0(parts[i])]
             first4 == SubSeq(ipParts, 1, IF Len(ipParts) < 4 THEN Len(ipParts) ELSE 4)
         IN  [i \in 1..Len(first4) |-> first4[i] % 256]

createPacket(cmd, clientId, data, targetHost, targetPort) ==
    <<cmd % 256>>
    \o CopyInto(ClientIdBuffer(clientId), 16)
    \o CopyInto(IpBuffer(targetHost), 4)
    \o WriteUInt16BE(targetPort)
    \o WriteUInt32BE(Len(data))
    \o data

----------------------------------------------------------------------------
(* PacketStream *)

\* the packet object of one complete frame at the start of buf
PacketAt(buf, dataLength) ==
    [ cmd        |-> ReadUInt8(buf, 0),
      clientId   |-> ToHexString(SubSeq(buf, 2, 17)),
      targetHost |-> JoinDots(SubSeq(buf, 18, 21)),
      targetPort |-> ReadUInt16BE(buf, 21),
      data       |-> SubSeq(buf, HEADER_LEN + 1, HEADER_LEN + dataLength) ]

DataLengthAt(buf) == ReadUInt32BE(buf, 23)

\* the body of the loop run once, as an if
ExtractOne(buf, out) ==
    IF Len(buf) >= HEADER_LEN /\ Len(buf) >= HEADER_LEN + DataLengthAt(buf)
    THEN [buffer |-> SubSeq(buf, HEADER_LEN + DataLengthAt(buf) + 1, Len(buf)),
          out |-> Append(out, PacketAt(buf, DataLengthAt(buf)))]
    ELSE [buffer |-> buf, out |-> out]

RECURSIVE ExtractPackets(_, _)
\* the while loop of _transform: [buffer, out]
ExtractPackets(buf, out) ==
    IF Len(buf) >= HEADER_LEN /\ Len(buf) >= HEADER_LEN + DataLengthAt(buf)
    THEN ExtractPackets(SubSeq(buf, HEADER_LEN + DataLengthAt(buf) + 1, Len(buf)),
                        Append(out, PacketAt(buf, DataLengthAt(buf))))
    ELSE [buffer |-> buf, out |-> out]

\* _transform(chunk): append, then extract every complete frame
Transform(buf, chunk) == ExtractPackets(buf \o chunk, <<>>)

----------------------------------------------------------------------------
(* Session level: the two processes and the serial link between them.      *)
(* A frame is a record; a payload is a sequence of bytes, one byte per     *)
(* chunk read from a socket, numbered in the order the socket sent them.   *)

\* Bound of the session-level model: what the world outside the two
\* processes delivers, in all (chunks the clients send, chunks the targets
\* send, signals, frames of another origin on the link)
MaxInputs == 2

Sides == {"I", "E"}          \* ingress (tcp-server.js) and egress (tcp-client.js)
Peer(side) == IF side = "I" THEN "E" ELSE "I"

\* the ids crypto.randomUUID() returns, in the order it returns them
Ids == <<"a", "b">>
IdSet == {Ids[i] : i \in 1..Len(Ids)}

\* the mapping file. Map keys compare by value and type: local ports are
\* written as strings, so that a clientId never equals one.
portMappings ==
    << [localPort |-> "8080", remoteHost |-> "10.0.0.1", remotePort |-> 9000],
       [localPort |-> "8081", remoteHost |-> "10.0.0.2", remotePort |-> 22] >>

LocalPorts == {portMappings[i].localPort : i \in 1..Len(portMappings)}
MappingOf(p) == portMappings[CHOOSE i \in 1..Len(portMappings) : portMappings[i].localPort = p]

\* a target socket is named by its id and the number of the dial for that id
SockKeys == IdSet \X (1..MaxInputs)

Frame(cmd, clientId, data, targetHost, targetPort) ==
    [cmd |-> cmd, clientId |-> clientId, data |-> data,
     targetHost |-> targetHost, targetPort |-> targetPort]

\* what the world outside has delivered so far
Inputs ==
    nSent[Ids[1]] + nSent[Ids[2]] + nReply[Ids[1]] + nReply[Ids[2]] + used.signals + used.foreign
        + used.errors["I"] + used.errors["E"]

Range(seq) == {seq[i] : i \in 1..Len(seq)}

RECURSIVE Remove(_, _)
\* a Map's keys after delete(x)
Remove(seq, x) ==
    IF seq = <<>> THEN <<>>
    ELSE IF Head(seq) = x THEN Tail(seq)
    ELSE <<Head(seq)>> \o Remove(Tail(seq), x)

Running(side) == exitCode[side] = -1
IsOpen(side) == serial[side] = "open"

\* socket.destroyed
Destroyed(state) == state \in {"destroyed", "closed"}

SessionsIdle ==
    /\ serial = [s \in Sides |-> "opening"]
    /\ listening = TRUE
    /\ clientsByPort = <<>>
    /\ iSock = [id \in IdSet |-> "none"]
    /\ iPort = [id \in IdSet |-> ""]
    /\ clients = <<>>
    /\ eSock = [k \in SockKeys |->
                  [state |-> "none", targetHost |-> "", targetPort |-> 0, pending |-> <<>>]]
    /\ wire = [s \in Sides |-> <<>>]
    /\ sd = [s \in Sides |-> <<>>]
    /\ exitCode = [s \in Sides |-> -1]
    /\ nSent = [id \in IdSet |-> 0]
    /\ nReply = [id \in IdSet |-> 0]
    /\ written = [k \in SockKeys |-> <<>>]
    /\ iwritten = [id \in IdSet |-> <<>>]
    /\ emitted = [s \in Sides |->
                    [data |-> [id \in IdSet |-> 0], disc |-> [id \in IdSet |-> 0], close |-> 0]]
    /\ peerEnded = [s \in Sides |-> {}]
    /\ used = [signals |-> 0, foreign |-> 0, errors |-> [s \in Sides |-> 0]]
    /\ warned = [s \in Sides |-> {}]

FrameIdle ==
    /\ frames = <<>>
    /\ oversize = FALSE
    /\ wireBytes = <<>>
    /\ buffer = <<>>
    /\ packets = <<>>

Init == FrameIdle /\ SessionsIdle

----------------------------------------------------------------------------
(* serialPort.write and the frames a side writes *)

\* the link had the frames fs been put in front of those not yet read
WrittenFirst(side, fs) == [wire EXCEPT ![side] = fs \o @]

\* the link after side has written the frames fs, in order
Written(side, fs) == [wire EXCEPT ![side] = @ \o fs]

\* the record of what side has written, after one Data frame for id
EmittedData(side, id) == [emitted EXCEPT ![side].data[id] = @ + 1]

\* ... after one Disconnect frame for each id of the sequence ids
EmittedDisc(side, ids) ==
    [emitted EXCEPT ![side].disc =
        [id \in IdSet |-> @[id] + Cardinality({i \in 1..Len(ids) : ids[i] = id})]]

\* serialPort.open callback without error
SerialOpen(side) ==
    /\ Running(side)
    /\ serial[side] = "opening"
    /\ serial' = [serial EXCEPT ![side] = "open"]
    /\ UNCHANGED <<fvars, listening, clientsByPort, iSock, iPort, clients, eSock, wire,
                   sd, exitCode, hvars>>

----------------------------------------------------------------------------
(* Ingress: the session table *)

PortIndex(p) ==
    IF \E i \in 1..Len(clientsByPort) : clientsByPort[i].localPort = p
    THEN CHOOSE i \in 1..Len(clientsByPort) : clientsByPort[i].localPort = p
    ELSE 0

\* clientsByPort.has(key)
HasPort(key) == PortIndex(key) # 0

RECURSIVE AllIds(_)
\* the ids of the nested forEach over clientsByPort, in iteration order
AllIds(table) ==
    IF table = <<>> THEN <<>> ELSE Head(table).clients \o AllIds(Tail(table))

\* some port's map has the id
InTable(id) == \E i \in 1..Len(clientsByPort) : id \in Range(clientsByPort[i].clients)

\* a delete that empties the map of the port
DeleteClientPort(table, p, id) ==
    [i \in 1..Len(table) |->
        IF table[i].localPort = p THEN [table[i] EXCEPT !.clients = <<>>] ELSE table[i]]

\* clientsByPort.get(localPort).delete(clientId), when the port has a map
DeleteClient(table, p, id) ==
    [i \in 1..Len(table) |->
        IF table[i].localPort = p
        THEN [table[i] EXCEPT !.clients = Remove(@, id)]
        ELSE table[i]]

\* a Disconnect frame for id with the pair of the first mapping entry
IngressDisconnectFirst(id) ==
    Frame(CMD_DISCONNECT, id, <<>>, portMappings[1].remoteHost, portMappings[1].remotePort)

\* the Disconnect frame ingress writes for id
IngressDisconnect(id) ==
    Frame(CMD_DISCONNECT, id, <<>>, MappingOf(iPort[id]).remoteHost,
          MappingOf(iPort[id]).remotePort)

----------------------------------------------------------------------------
(* gracefulShutdown: what both sides share.  An invocation is a record     *)
(* [pc, wait, origin, uart, expired, handed]: where it is suspended, the   *)
(* sockets whose close it still awaits, what started it ("local": a signal *)
(* or an uncaught error; "remote": a ProgramClose frame), whether the      *)
(* serial port was open when it started, whether one of its timers for a   *)
(* socket or for the servers has fired, and, for the record at egress,     *)
(* whose sequence is the one that writes ProgramClose, how many chunks     *)
(* each client had sent when it started.                                   *)

Invocation(pc, origin, side) ==
    [pc |-> pc, wait |-> {}, origin |-> origin, uart |-> IsOpen(side), expired |-> FALSE,
     handed |-> IF side = "E" THEN nSent ELSE [id \in IdSet |-> 0]]

\* the invocations of side that resume when the close of x (or its timer) is
\* the last they await
Finishing(side, x) ==
    {j \in 1..Len(sd[side]) : sd[side][j].pc = "awaitClose" /\ sd[side][j].wait = {x}}

\* socket.once('close', resolve) of every invocation that awaits x
Resolved(side, x, next) ==
    [j \in 1..Len(sd[side]) |->
        IF sd[side][j].pc = "awaitClose" /\ x \in sd[side][j].wait
        THEN IF sd[side][j].wait = {x}
             THEN [sd[side][j] EXCEPT !.pc = next, !.wait = {}]
             ELSE [sd[side][j] EXCEPT !.wait = @ \ {x}]
        ELSE sd[side][j]]

\* the timer of invocation j for x: only that invocation resolves
TimedOut(side, j, x, next) ==
    [sd[side] EXCEPT ![j] =
        IF @.wait = {x} THEN [@ EXCEPT !.pc = next, !.wait = {}, !.expired = TRUE]
        ELSE [@ EXCEPT !.wait = @ \ {x}, !.expired = TRUE]]

----------------------------------------------------------------------------
(* Ingress: createMultiPortServers *)

\* net.createServer callback: a client connects to local port p.  The
\* mappings are interchangeable, so the first client is taken to connect to
\* the first; the second connects to either.
Accept(p) ==
    /\ Running("I")
    /\ listening
    /\ \E n \in 1..Len(Ids) :
          /\ n = 1 => p = portMappings[1].localPort
          /\ iSock[Ids[n]] = "none"
          /\ \A m \in 1..(n - 1) : iSock[Ids[m]] # "none"
          /\ clientsByPort' =
                IF HasPort(p)
                THEN [clientsByPort EXCEPT ![PortIndex(p)].clients = Append(@, Ids[n])]
                ELSE Append(clientsByPort, [localPort |-> p, clients |-> <<Ids[n]>>])
          /\ iSock' = [iSock EXCEPT ![Ids[n]] = "open"]
          /\ iPort' = [iPort EXCEPT ![Ids[n]] = p]
    /\ UNCHANGED <<fvars, serial, listening, clients, eSock, wire, sd, exitCode, hvars>>

\* socket.on('data'): the client of id sends its next chunk
ClientData(id) ==
    /\ Running("I")
    /\ iSock[id] \in {"open", "ended"}
    /\ Inputs < MaxInputs
    /\ nSent' = [nSent EXCEPT ![id] = @ + 1]
    /\ IF IsOpen("I")
       THEN /\ wire' = Written("I", <<Frame(CMD_DATA, id, <<nSent[id] + 1>>,
                                            MappingOf(iPort[id]).remoteHost,
                                            MappingOf(iPort[id]).remotePort)>>)
            /\ emitted' = EmittedData("I", id)
       ELSE UNCHANGED <<wire, emitted>>
    /\ UNCHANGED <<fvars, serial, listening, clientsByPort, iSock, iPort, clients, eSock,
                   sd, exitCode, nReply, written, iwritten, peerEnded, used, warned>>

\* socket.on('close'), and the once('close') of the invocations awaiting it;
\* an invocation whose last awaited socket this is goes on to clear the
\* table and close the servers
ClientClose(id) ==
    /\ Running("I")
    /\ iSock[id] \in {"open", "ended", "destroyed"}
    /\ iSock' = [iSock EXCEPT ![id] = "closed"]
    /\ clientsByPort' = IF Finishing("I", id) # {} THEN <<>>
                        ELSE DeleteClient(clientsByPort, iPort[id], id)
    /\ listening' = (listening /\ Finishing("I", id) = {})
    /\ sd' = [sd EXCEPT !["I"] = Resolved("I", id, "awaitServers")]
    /\ IF IsOpen("I")
       THEN /\ wire' = Written("I", <<IngressDisconnect(id)>>)
            /\ emitted' = EmittedDisc("I", <<id>>)
       ELSE UNCHANGED <<wire, emitted>>
    /\ UNCHANGED <<fvars, serial, iPort, clients, eSock, exitCode, nSent, nReply, written,
                   iwritten, peerEnded, used, warned>>

----------------------------------------------------------------------------
(* Ingress: handleResponsePacket *)

\* the switch of handleResponsePacket
IngressCase(cmd) ==
    IF cmd = CMD_DATA THEN "data"
    ELSE IF cmd = CMD_DISCONNECT THEN "disconnect"
    ELSE IF cmd = CMD_PROGRAM_CLOSE THEN "programClose"
    ELSE "default"

\* case CMD_DATA with the payload written whatever the table holds
IngressOnDataAlways(f) ==
    /\ iwritten' = [iwritten EXCEPT ![f.clientId] = @ \o f.data]
    /\ UNCHANGED iSock

\* case CMD_DATA
IngressOnData(f) ==
    IF InTable(f.clientId) /\ ~Destroyed(iSock[f.clientId])
    THEN IF iSock[f.clientId] = "open"
         THEN /\ iwritten' = [iwritten EXCEPT ![f.clientId] = @ \o f.data]
              /\ UNCHANGED iSock
         ELSE \* write after end(): an error; the stream may destroy itself
              /\ iSock' \in {iSock, [iSock EXCEPT ![f.clientId] = "destroyed"]}
              /\ UNCHANGED iwritten
    ELSE UNCHANGED <<iSock, iwritten>>

\* case CMD_DISCONNECT, the sockets after client.socket.end() for a client
\* of the table whose socket is not destroyed
IngressEnded(id) ==
    IF InTable(id) /\ ~Destroyed(iSock[id]) THEN [iSock EXCEPT ![id] = "ended"] ELSE iSock

\* case CMD_DISCONNECT, the table after the delete, which looks the id up
\* among the ports
IngressDeleted(id) ==
    IF HasPort(id) THEN DeleteClient(clientsByPort, id, id) ELSE clientsByPort

\* case CMD_DISCONNECT with every socket destroyed, in the table or not
IngressOnDisconnectForce(f) ==
    /\ iSock' = [iSock EXCEPT ![f.clientId] = "destroyed"]
    /\ UNCHANGED <<peerEnded, clientsByPort>>

\* case CMD_DISCONNECT: end the socket, delete the entry
IngressOnDisconnect(f) ==
    /\ iSock' = IngressEnded(f.clientId)
    /\ peerEnded' = IF InTable(f.clientId) /\ ~Destroyed(iSock[f.clientId])
                    THEN [peerEnded EXCEPT !["I"] = @ \cup {f.clientId}]
                    ELSE peerEnded
    /\ clientsByPort' = IngressDeleted(f.clientId)

\* packetStream.on('packet'): ingress handles the next frame of the link
IngressRecv ==
    /\ Running("I")
    /\ IsOpen("I")
    /\ wire["E"] # <<>>
    /\ wire' = [wire EXCEPT !["E"] = Tail(@)]
    /\ LET f == Head(wire["E"]) IN
       \/ /\ IngressCase(f.cmd) = "data"
          /\ IngressOnData(f)
          /\ UNCHANGED <<clientsByPort, sd, peerEnded, warned>>
       \/ /\ IngressCase(f.cmd) = "disconnect"
          /\ IngressOnDisconnect(f)
          /\ UNCHANGED <<sd, iwritten, warned>>
       \/ /\ IngressCase(f.cmd) = "programClose"
          /\ sd' = [sd EXCEPT !["I"] = Append(@, Invocation("scheduled", "remote", "I"))]
          /\ UNCHANGED <<clientsByPort, iSock, iwritten, peerEnded, warned>>
       \/ /\ IngressCase(f.cmd) = "default"
          /\ warned' = [warned EXCEPT !["I"] = @ \cup {f.cmd}]
          /\ UNCHANGED <<clientsByPort, iSock, sd, iwritten, peerEnded>>
    /\ UNCHANGED <<fvars, serial, listening, iPort, clients, eSock, exitCode, nSent, nReply,
                   written, emitted, used>>

----------------------------------------------------------------------------
(* Ingress: gracefulShutdown *)

\* steps 3 and 4 when step 2 had no socket to end, else step 2: end every
\* socket of the table that is not destroyed and await their close
IngressStep2(insts, j) ==
    LET toEnd == {id \in Range(AllIds(clientsByPort)) : ~Destroyed(iSock[id])} IN
    IF toEnd # {}
    THEN /\ iSock' = [id \in IdSet |-> IF id \in toEnd THEN "ended" ELSE iSock[id]]
         /\ sd' = [sd EXCEPT !["I"] =
                      [insts EXCEPT ![j].pc = "awaitClose", ![j].wait = toEnd]]
         /\ UNCHANGED <<clientsByPort, listening>>
    ELSE /\ clientsByPort' = <<>>
         /\ listening' = FALSE
         /\ sd' = [sd EXCEPT !["I"] = [insts EXCEPT ![j].pc = "awaitServers"]]
         /\ UNCHANGED iSock

\* step 1: a Disconnect for every client of the table, when the port is open
IngressBegin(insts, j) ==
    IF IsOpen("I") /\ AllIds(clientsByPort) # <<>>
    THEN /\ wire' = Written("I", [i \in 1..Len(AllIds(clientsByPort)) |->
                                     IngressDisconnect(AllIds(clientsByPort)[i])])
         /\ emitted' = EmittedDisc("I", AllIds(clientsByPort))
         /\ sd' = [sd EXCEPT !["I"] = [insts EXCEPT ![j].pc = "awaitDisc"]]
         /\ UNCHANGED <<clientsByPort, listening, iSock>>
    ELSE /\ IngressStep2(insts, j)
         /\ UNCHANGED <<wire, emitted>>

\* process.on('SIGINT' | 'SIGTERM' | 'uncaughtException' | 'unhandledRejection')
IngressSignal ==
    /\ Running("I")
    /\ Inputs < MaxInputs
    /\ used' = [used EXCEPT !.signals = @ + 1]
    /\ IngressBegin(Append(sd["I"], Invocation("start", "local", "I")), Len(sd["I"]) + 1)
    /\ UNCHANGED <<fvars, serial, iPort, clients, eSock, exitCode, nSent, nReply, written,
                   iwritten, peerEnded, warned>>

\* the setImmediate callback of case CMD_PROGRAM_CLOSE
IngressImmediate(j) ==
    /\ Running("I")
    /\ j \in 1..Len(sd["I"])
    /\ sd["I"][j].pc = "scheduled"
    /\ IngressBegin([sd["I"] EXCEPT ![j].uart = IsOpen("I")], j)
    /\ UNCHANGED <<fvars, serial, iPort, clients, eSock, exitCode, nSent, nReply, written,
                   iwritten, peerEnded, used, warned>>

\* every write callback of step 1 has run
IngressDisconnectsWritten(j) ==
    /\ Running("I")
    /\ j \in 1..Len(sd["I"])
    /\ sd["I"][j].pc = "awaitDisc"
    /\ IngressStep2(sd["I"], j)
    /\ UNCHANGED <<fvars, serial, iPort, clients, eSock, wire, exitCode, hvars>>

\* step 2 without a timer
IngressSocketNoTimeout(j, id) == FALSE /\ UNCHANGED vars

\* the 3 s timer of step 2 for the socket of id: destroy it, resolve
IngressSocketTimeout(j, id) ==
    /\ Running("I")
    /\ j \in 1..Len(sd["I"])
    /\ sd["I"][j].pc = "awaitClose"
    /\ id \in sd["I"][j].wait
    /\ iSock' = [iSock EXCEPT ![id] = "destroyed"]
    /\ sd' = [sd EXCEPT !["I"] = TimedOut("I", j, id, "awaitServers")]
    /\ IF sd["I"][j].wait = {id}
       THEN clientsByPort' = <<>> /\ listening' = FALSE
       ELSE UNCHANGED <<clientsByPort, listening>>
    /\ UNCHANGED <<fvars, serial, iPort, clients, eSock, wire, exitCode, hvars>>

\* step 5 after step 4 resolved, late when a timer of step 4 resolved it:
\* close the serial port when it is open, else exit
IngressStep5(j, late) ==
    IF IsOpen("I")
    THEN /\ serial' = [serial EXCEPT !["I"] = "closed"]
         /\ sd' = [sd EXCEPT !["I"][j].pc = "awaitSerial", !["I"][j].expired = @ \/ late]
         /\ UNCHANGED exitCode
    ELSE /\ exitCode' = [exitCode EXCEPT !["I"] = 0]
         /\ sd' = [sd EXCEPT !["I"][j].expired = @ \/ late]
         /\ UNCHANGED serial

\* server.close callbacks: every connection of the servers has ended
IngressServersClosed(j) ==
    /\ Running("I")
    /\ j \in 1..Len(sd["I"])
    /\ sd["I"][j].pc = "awaitServers"
    /\ \A id \in IdSet : iSock[id] \in {"none", "closed"}
    /\ IngressStep5(j, FALSE)
    /\ UNCHANGED <<fvars, listening, clientsByPort, iSock, iPort, clients, eSock, wire, hvars>>

\* the 5 s timers of step 4
IngressServersTimeout(j) ==
    /\ Running("I")
    /\ j \in 1..Len(sd["I"])
    /\ sd["I"][j].pc = "awaitServers"
    /\ \E id \in IdSet : iSock[id] \notin {"none", "closed"}
    /\ IngressStep5(j, TRUE)
    /\ UNCHANGED <<fvars, listening, clientsByPort, iSock, iPort, clients, eSock, wire, hvars>>

\* serialPort.close callback, or its 3 s timer: process.exit(0)
IngressSerialClosed(j) ==
    /\ Running("I")
    /\ j \in 1..Len(sd["I"])
    /\ sd["I"][j].pc = "awaitSerial"
    /\ exitCode' = [exitCode EXCEPT !["I"] = 0]
    /\ UNCHANGED <<fvars, serial, listening, clientsByPort, iSock, iPort, clients, eSock,
                   wire, sd, hvars>>

----------------------------------------------------------------------------
(* Egress: the session table *)

ClientIndex(id) ==
    IF \E i \in 1..Len(clients) : clients[i].id = id
    THEN CHOOSE i \in 1..Len(clients) : clients[i].id = id
    ELSE 0

\* clients.has(id), clients.get(id).socket
HasClient(id) == ClientIndex(id) # 0
SocketOf(id) == clients[ClientIndex(id)].sock

\* clients.set(id, clientInfo): a present key keeps its place and takes the
\* new value
SetClient(id, s) ==
    IF HasClient(id)
    THEN [clients EXCEPT ![ClientIndex(id)].sock = s]
    ELSE Append(clients, [id |-> id, sock |-> s])

\* clients.delete(id)
DeleteEntry(id) == SelectSeq(clients, LAMBDA e : e.id # id)

\* the number of the next dial for id
NextDial(id) == 1 + Cardinality({n \in 1..MaxInputs : eSock[<<id, n>>].state # "none"})

\* the Disconnect frame egress writes for the socket s
EgressDisconnect(s) ==
    Frame(CMD_DISCONNECT, s[1], <<>>, eSock[s].targetHost, eSock[s].targetPort)

----------------------------------------------------------------------------
(* Egress: createTargetConnection *)

\* the connect callback, then the .then of handlePacket: the session enters
\* the table and the payload that started the dial is written
DialOk(s) ==
    /\ Running("E")
    /\ eSock[s].state = "connecting"
    /\ eSock' = [eSock EXCEPT ![s].state = "open", ![s].pending = <<>>]
    /\ clients' = SetClient(s[1], s)
    /\ written' = [written EXCEPT ![s] = @ \o eSock[s].pending]
    /\ UNCHANGED <<fvars, serial, listening, clientsByPort, iSock, iPort, wire, sd, exitCode,
                   nSent, nReply, iwritten, emitted, peerEnded, used, warned>>

\* socket.on('error') before the connection is made: reject, then the
\* .catch of handlePacket
DialFail(s) ==
    /\ Running("E")
    /\ eSock[s].state = "connecting"
    /\ eSock' = [eSock EXCEPT ![s].state = "failed", ![s].pending = <<>>]
    /\ UNCHANGED <<fvars, serial, listening, clientsByPort, iSock, iPort, clients, wire, sd,
                   exitCode, hvars>>

\* socket.on('data'): the target sends its next chunk on s
TargetData(s) ==
    /\ Running("E")
    /\ eSock[s].state \in {"open", "ended"}
    /\ Inputs < MaxInputs
    /\ nReply' = [nReply EXCEPT ![s[1]] = @ + 1]
    /\ IF IsOpen("E")
       THEN /\ wire' = Written("E", <<Frame(CMD_DATA, s[1], <<nReply[s[1]] + 1>>,
                                            eSock[s].targetHost, eSock[s].targetPort)>>)
            /\ emitted' = EmittedData("E", s[1])
       ELSE UNCHANGED <<wire, emitted>>
    /\ UNCHANGED <<fvars, serial, listening, clientsByPort, iSock, iPort, clients, eSock, sd,
                   exitCode, nSent, written, iwritten, peerEnded, used, warned>>

\* steps 4 and 5 of the invocations that resume: clear the table, close the
\* serial port when it is open, else exit; a second invocation resuming in
\* the same turn finds the port closing and exits
EgressStep45(resuming) ==
    /\ serial' = IF resuming # {} /\ IsOpen("E") THEN [serial EXCEPT !["E"] = "closed"]
                 ELSE serial
    /\ exitCode' = IF resuming # {} /\ (~IsOpen("E") \/ Cardinality(resuming) > 1)
                   THEN [exitCode EXCEPT !["E"] = 0]
                   ELSE exitCode

\* socket.on('close') of an established socket (an error after the
\* connection is made deletes the entry too and is followed by close), and
\* the once('close') of the invocations awaiting it
TargetClose(s) ==
    /\ Running("E")
    /\ eSock[s].state \in {"open", "ended", "destroyed"}
    /\ eSock' = [eSock EXCEPT ![s].state = "closed"]
    /\ clients' = IF Finishing("E", s) # {} THEN <<>> ELSE DeleteEntry(s[1])
    /\ sd' = [sd EXCEPT !["E"] = Resolved("E", s, "awaitSerial")]
    /\ EgressStep45(Finishing("E", s))
    /\ IF IsOpen("E")
       THEN /\ wire' = Written("E", <<EgressDisconnect(s)>>)
            /\ emitted' = EmittedDisc("E", <<s[1]>>)
       ELSE UNCHANGED <<wire, emitted>>
    /\ UNCHANGED <<fvars, listening, clientsByPort, iSock, iPort, nSent, nReply, written,
                   iwritten, peerEnded, used, warned>>

----------------------------------------------------------------------------
(* Egress: handlePacket *)

\* a switch that handles the retired CMD_CONNECT as it handles CMD_DATA
EgressCaseConnectAsData(cmd) ==
    IF cmd \in {CMD_DATA, CMD_CONNECT} THEN "data"
    ELSE IF cmd = CMD_DISCONNECT THEN "disconnect"
    ELSE "default"

\* the switch of handlePacket
EgressCase(cmd) ==
    IF cmd = CMD_DATA THEN "data"
    ELSE IF cmd = CMD_DISCONNECT THEN "disconnect"
    ELSE "default"

\* case CMD_DATA with a frame for a known id taken as the end of its session
EgressOnDataAsClose(f) ==
    IF HasClient(f.clientId)
    THEN /\ eSock' = [eSock EXCEPT ![SocketOf(f.clientId)].state = "ended"]
         /\ clients' = DeleteEntry(f.clientId)
         /\ UNCHANGED written
    ELSE /\ eSock' = [eSock EXCEPT ![<<f.clientId, NextDial(f.clientId)>>] =
                        [state |-> "connecting", targetHost |-> f.targetHost,
                         targetPort |-> f.targetPort, pending |-> f.data]]
         /\ UNCHANGED <<written, clients>>

\* case CMD_DATA: write to the socket of a known id, dial for an unknown one
EgressOnData(f) ==
    IF HasClient(f.clientId)
    THEN IF eSock[SocketOf(f.clientId)].state = "open"
         THEN /\ written' = [written EXCEPT ![SocketOf(f.clientId)] = @ \o f.data]
              /\ UNCHANGED <<eSock, clients>>
         ELSE IF eSock[SocketOf(f.clientId)].state = "ended"
         THEN \* write after end(): the 'error' handler deletes the entry; the
              \* stream may destroy itself
              /\ clients' = DeleteEntry(f.clientId)
              /\ eSock' \in {eSock, [eSock EXCEPT ![SocketOf(f.clientId)].state = "destroyed"]}
              /\ UNCHANGED written
         ELSE UNCHANGED <<written, eSock, clients>>
    ELSE /\ eSock' = [eSock EXCEPT ![<<f.clientId, NextDial(f.clientId)>>] =
                        [state |-> "connecting", targetHost |-> f.targetHost,
                         targetPort |-> f.targetPort, pending |-> f.data]]
         /\ UNCHANGED <<written, clients>>

\* case CMD_DISCONNECT, the sockets after client.socket.end() for a client
\* of the table
EgressEnded(id) ==
    IF HasClient(id) /\ eSock[SocketOf(id)].state = "open"
    THEN [eSock EXCEPT ![SocketOf(id)].state = "ended"]
    ELSE eSock

\* case CMD_DISCONNECT, the table after clients.delete(clientId)
EgressDeleted(id) == IF HasClient(id) THEN DeleteEntry(id) ELSE clients

\* case CMD_DISCONNECT: end the socket of a known id and delete its entry
EgressOnDisconnect(f) ==
    /\ eSock' = EgressEnded(f.clientId)
    /\ peerEnded' = IF HasClient(f.clientId)
                    THEN [peerEnded EXCEPT !["E"] = @ \cup {SocketOf(f.clientId)}]
                    ELSE peerEnded
    /\ clients' = EgressDeleted(f.clientId)

\* packetStream.on('packet'): egress handles the next frame of the link
EgressRecv ==
    /\ Running("E")
    /\ IsOpen("E")
    /\ wire["I"] # <<>>
    /\ wire' = [wire EXCEPT !["I"] = Tail(@)]
    /\ LET f == Head(wire["I"]) IN
       \/ /\ EgressCase(f.cmd) = "data"
          /\ EgressOnData(f)
          /\ UNCHANGED <<peerEnded, warned>>
       \/ /\ EgressCase(f.cmd) = "disconnect"
          /\ EgressOnDisconnect(f)
          /\ UNCHANGED <<written, warned>>
       \/ /\ EgressCase(f.cmd) = "default"
          /\ warned' = [warned EXCEPT !["E"] = @ \cup {f.cmd}]
          /\ UNCHANGED <<eSock, clients, written, peerEnded>>
    /\ UNCHANGED <<fvars, serial, listening, clientsByPort, iSock, iPort, sd, exitCode,
                   nSent, nReply, iwritten, emitted, used>>

----------------------------------------------------------------------------
(* Egress: gracefulShutdown *)

\* step 3: end every socket of the table that is not destroyed and await
\* their close; steps 4 and 5 when there is none
EgressStep3(insts, j) ==
    LET toEnd == {clients[i].sock : i \in {i \in 1..Len(clients) :
                                             ~Destroyed(eSock[clients[i].sock].state)}} IN
    IF toEnd # {}
    THEN /\ eSock' = [s \in SockKeys |->
                        IF s \in toEnd THEN [eSock[s] EXCEPT !.state = "ended"] ELSE eSock[s]]
         /\ sd' = [sd EXCEPT !["E"] =
                      [insts EXCEPT ![j].pc = "awaitClose", ![j].wait = toEnd]]
         /\ UNCHANGED <<clients, serial, exitCode>>
    ELSE /\ clients' = <<>>
         /\ sd' = [sd EXCEPT !["E"] = [insts EXCEPT ![j].pc = "awaitSerial"]]
         /\ EgressStep45({j})
         /\ UNCHANGED eSock

\* step 2 without its writes
EgressStep2Silent(insts, j) == EgressStep3(insts, j) /\ UNCHANGED <<wire, emitted>>

\* step 2: a Disconnect for every client of the table, when the port is open
EgressStep2(insts, j) ==
    IF IsOpen("E") /\ clients # <<>>
    THEN /\ wire' = Written("E", [i \in 1..Len(clients) |-> EgressDisconnect(clients[i].sock)])
         /\ emitted' = EmittedDisc("E", [i \in 1..Len(clients) |-> clients[i].id])
         /\ sd' = [sd EXCEPT !["E"] = [insts EXCEPT ![j].pc = "afterNotif"]]
         /\ UNCHANGED <<eSock, clients, serial, exitCode>>
    ELSE /\ EgressStep3(insts, j)
         /\ UNCHANGED <<wire, emitted>>

\* step 1: the ProgramClose frame, when the port is open
EgressBegin(insts, j) ==
    IF IsOpen("E")
    THEN /\ wire' = Written("E", <<Frame(CMD_PROGRAM_CLOSE, "random", <<>>, "", 0)>>)
         /\ emitted' = [emitted EXCEPT !["E"].close = @ + 1]
         /\ sd' = [sd EXCEPT !["E"] = [insts EXCEPT ![j].pc = "afterPC"]]
         /\ UNCHANGED <<eSock, clients, serial, exitCode>>
    ELSE EgressStep2(insts, j)

\* process.on('SIGINT' | 'SIGTERM' | 'uncaughtException' | 'unhandledRejection')
EgressSignal ==
    /\ Running("E")
    /\ Inputs < MaxInputs
    /\ used' = [used EXCEPT !.signals = @ + 1]
    /\ EgressBegin(Append(sd["E"], Invocation("start", "local", "E")), Len(sd["E"]) + 1)
    /\ UNCHANGED <<fvars, listening, clientsByPort, iSock, iPort, nSent, nReply, written,
                   iwritten, peerEnded, warned>>

\* the write callback of step 1 and the 1 s timer after it
EgressAfterProgramClose(j) ==
    /\ Running("E")
    /\ j \in 1..Len(sd["E"])
    /\ sd["E"][j].pc = "afterPC"
    /\ EgressStep2(sd["E"], j)
    /\ UNCHANGED <<fvars, listening, clientsByPort, iSock, iPort, nSent, nReply, written,
                   iwritten, peerEnded, used, warned>>


\* the write callbacks of step 2 and the 500 ms timer after them
EgressAfterDisconnects(j) ==
    /\ Running("E")
    /\ j \in 1..Len(sd["E"])
    /\ sd["E"][j].pc = "afterNotif"
    /\ EgressStep3(sd["E"], j)
    /\ UNCHANGED <<fvars, listening, clientsByPort, iSock, iPort, wire, hvars>>

\* the 3 s timer of step 3 for the socket s: destroy it, resolve
EgressSocketTimeout(j, s) ==
    /\ Running("E")
    /\ j \in 1..Len(sd["E"])
    /\ sd["E"][j].pc = "awaitClose"
    /\ s \in sd["E"][j].wait
    /\ eSock' = [eSock EXCEPT ![s].state = "destroyed"]
    /\ sd' = [sd EXCEPT !["E"] = TimedOut("E", j, s, "awaitSerial")]
    /\ IF sd["E"][j].wait = {s}
       THEN clients' = <<>> /\ EgressStep45({j})
       ELSE UNCHANGED <<clients, serial, exitCode>>
    /\ UNCHANGED <<fvars, listening, clientsByPort, iSock, iPort, wire, hvars>>

\* serialPort.close callback, or its 3 s timer: process.exit(0)
EgressSerialClosed(j) ==
    /\ Running("E")
    /\ j \in 1..Len(sd["E"])
    /\ sd["E"][j].pc = "awaitSerial"
    /\ exitCode' = [exitCode EXCEPT !["E"] = 0]
    /\ UNCHANGED <<fvars, serial, listening, clientsByPort, iSock, iPort, clients, eSock,
                   wire, sd, hvars>>

----------------------------------------------------------------------------
(* The link also carries what the peer program never writes: the commands  *)
(* of other versions of the protocol (0x02, 0x04), and towards egress,     *)
(* which has no case for it, ProgramClose.                                 *)

ForeignCmds(side) ==
    IF side = "I" THEN {CMD_CONNECT, CMD_PROGRAM_CLOSE} ELSE {CMD_CLIENT_CLOSE}

\* a frame of another origin arrives behind the frames side has written
Foreign(side) ==
    /\ Inputs < MaxInputs
    /\ used' = [used EXCEPT !.foreign = @ + 1]
    /\ \E cmd \in ForeignCmds(side) :
          wire' = Written(side, <<Frame(cmd, Ids[1], <<0>>, "10.0.0.1", 9000)>>)
    /\ UNCHANGED <<fvars, serial, listening, clientsByPort, iSock, iPort, clients, eSock,
                   sd, exitCode, nSent, nReply, written, iwritten, emitted, peerEnded, warned>>

\* a Data frame without payload, of another origin, arrives at egress for a
\* session that is established there
EmptyData ==
    /\ Inputs < MaxInputs
    /\ HasClient(Ids[1]) /\ eSock[SocketOf(Ids[1])].state = "open"
    /\ used' = [used EXCEPT !.foreign = @ + 1]
    /\ wire' = Written("I", <<Frame(CMD_DATA, Ids[1], <<>>,
                                    eSock[SocketOf(Ids[1])].targetHost,
                                    eSock[SocketOf(Ids[1])].targetPort)>>)
    /\ UNCHANGED <<fvars, serial, listening, clientsByPort, iSock, iPort, clients, eSock,
                   sd, exitCode, nSent, nReply, written, iwritten, emitted, peerEnded, warned>>

\* serialPort.on('error'): the port of side reports a read or write error;
\* the handler writes a log line
SerialError(side) ==
    /\ Running(side)
    /\ serial[side] = "open"
    /\ Inputs < MaxInputs
    /\ used' = [used EXCEPT !.errors[side] = @ + 1]
    /\ UNCHANGED <<fvars, svars, nSent, nReply, written, iwritten, emitted, peerEnded, warned>>

----------------------------------------------------------------------------
(* The session-level specification *)

\* sessions: connections, chunks, frames handled, dials, closes
Traffic ==
    \/ \E side \in Sides : SerialOpen(side)
    \/ \E p \in LocalPorts : Accept(p)
    \/ \E id \in IdSet : ClientData(id)
    \/ \E id \in IdSet : ClientClose(id)
    \/ IngressRecv
    \/ \E s \in SockKeys : DialOk(s)
    \/ \E s \in SockKeys : DialFail(s)
    \/ \E s \in SockKeys : TargetData(s)
    \/ \E s \in SockKeys : TargetClose(s)
    \/ EgressRecv

\* the callbacks and timers of a sequence that a signal started at ingress
IngressSteps ==
    \/ \E j \in 1..MaxInputs : IngressDisconnectsWritten(j)
    \/ \E j \in 1..MaxInputs, id \in IdSet : IngressSocketTimeout(j, id)
    \/ \E j \in 1..MaxInputs : IngressServersClosed(j)
    \/ \E j \in 1..MaxInputs : IngressServersTimeout(j)
    \/ \E j \in 1..MaxInputs : IngressSerialClosed(j)

IngressShutdown ==
    \/ IngressSignal
    \/ \E j \in 1..MaxInputs : IngressImmediate(j)
    \/ IngressSteps

\* the callbacks and timers of a sequence at egress
EgressSteps ==
    \/ \E j \in 1..MaxInputs : EgressAfterProgramClose(j)
    \/ \E j \in 1..MaxInputs : EgressAfterDisconnects(j)
    \/ \E j \in 1..MaxInputs, s \in SockKeys : EgressSocketTimeout(j, s)
    \/ \E j \in 1..MaxInputs : EgressSerialClosed(j)

EgressShutdown == EgressSignal \/ EgressSteps

ForeignFrames == (\E side \in Sides : Foreign(side)) \/ EmptyData

LinkErrors == \E side \in Sides : SerialError(side)

Next == Traffic \/ IngressShutdown \/ EgressShutdown \/ ForeignFrames \/ LinkErrors

\* the two processes, signals and frames of another origin included
Spec == Init /\ [][Next]_vars

\* sessions on a link that also carries frames of another origin; no signal
NextLink == Traffic \/ ForeignFrames

SpecLink == Init /\ [][NextLink]_vars

\* the only signal of a run, at either program
FirstSignal == used.signals = 0 /\ (IngressSignal \/ EgressSignal)

\* sessions and the sequence that one signal starts at one of the two
\* programs; the setImmediate that a ProgramClose schedules at ingress is
\* not followed
NextOneSignal == Traffic \/ FirstSignal \/ IngressSteps \/ EgressSteps

SpecOneSignal == Init /\ [][NextOneSignal]_vars

\* what the event loop and the peers' TCP stacks bring about: the open
\* callback of the serial port, a 'packet' event for a frame that has
\* arrived, the outcome of a dial, and the 'close' of a socket that was
\* ended or destroyed.  Connections, chunks and the close of an open socket
\* are the clients' and the targets' choice and are not required.
FairSessions ==
    /\ \A side \in Sides : WF_vars(SerialOpen(side))
    /\ WF_vars(IngressRecv)
    /\ WF_vars(EgressRecv)
    /\ \A s \in SockKeys : WF_vars(DialOk(s) \/ DialFail(s))
    /\ \A s \in SockKeys : WF_vars(eSock[s].state \in {"ended", "destroyed"} /\ TargetClose(s))
    /\ \A id \in IdSet : WF_vars(iSock[id] \in {"ended", "destroyed"} /\ ClientClose(id))

\* sessions alone, every callback that is due being run
SpecSessionsFair == Init /\ [][Traffic]_vars /\ FairSessions

\* what goes on once a signal has been delivered, no further chunk arriving:
\* callbacks, connections, dial outcomes, closes, frames handled
Closing ==
    \/ \E side \in Sides : SerialOpen(side)
    \/ \E p \in LocalPorts : Accept(p)
    \/ \E id \in IdSet : ClientClose(id)
    \/ IngressRecv
    \/ \E s \in SockKeys : DialOk(s)
    \/ \E s \in SockKeys : DialFail(s)
    \/ \E s \in SockKeys : TargetClose(s)
    \/ EgressRecv

\* one session, and the sequences that one signal starts: at the program
\* that receives it and, through ProgramClose and setImmediate, at ingress
NextShutdown ==
    \/ used.signals = 0 /\ Traffic /\ iSock'[Ids[2]] = "none"
    \/ used.signals = 1 /\ Closing /\ iSock'[Ids[2]] = "none"
    \/ FirstSignal
    \/ \E j \in 1..MaxInputs : IngressImmediate(j)
    \/ IngressSteps
    \/ EgressSteps

\* the timers of a sequence fire and its write and close callbacks run; a
\* setImmediate callback runs
FairShutdown ==
    /\ WF_vars(\E j \in 1..MaxInputs : IngressImmediate(j))
    /\ WF_vars(IngressSteps)
    /\ WF_vars(EgressSteps)

SpecShutdownFair == Init /\ [][NextShutdown]_vars /\ FairShutdown

\* a run observed from the moment one session is established and idle: both
\* serial ports open, the first client accepted on the first port, its
\* target connected, no frame on the link; what happened so far is counted
\* from there
InitEstablished ==
    /\ FrameIdle
    /\ serial = [s \in Sides |-> "open"]
    /\ listening = TRUE
    /\ clientsByPort = <<[localPort |-> portMappings[1].localPort, clients |-> <<Ids[1]>>]>>
    /\ iSock = [id \in IdSet |-> IF id = Ids[1] THEN "open" ELSE "none"]
    /\ iPort = [id \in IdSet |-> IF id = Ids[1] THEN portMappings[1].localPort ELSE ""]
    /\ clients = <<[id |-> Ids[1], sock |-> <<Ids[1], 1>>]>>
    /\ eSock = [k \in SockKeys |->
                  IF k = <<Ids[1], 1>>
                  THEN [state |-> "open", targetHost |-> portMappings[1].remoteHost,
                        targetPort |-> portMappings[1].remotePort, pending |-> <<>>]
                  ELSE [state |-> "none", targetHost |-> "", targetPort |-> 0,
                        pending |-> <<>>]]
    /\ wire = [s \in Sides |-> <<>>]
    /\ sd = [s \in Sides |-> <<>>]
    /\ exitCode = [s \in Sides |-> -1]
    /\ nSent = [id \in IdSet |-> 0]
    /\ nReply = [id \in IdSet |-> 0]
    /\ written = [k \in SockKeys |-> <<>>]
    /\ iwritten = [id \in IdSet |-> <<>>]
    /\ emitted = [s \in Sides |->
                    [data |-> [id \in IdSet |-> 0], disc |-> [id \in IdSet |-> 0], close |-> 0]]
    /\ peerEnded = [s \in Sides |-> {}]
    /\ used = [signals |-> 0, foreign |-> 0, errors |-> [s \in Sides |-> 0]]
    /\ warned = [s \in Sides |-> {}]

\* sessions once the serial ports are open
Exchange ==
    \/ \E p \in LocalPorts : Accept(p)
    \/ \E id \in IdSet : ClientData(id)
    \/ \E id \in IdSet : ClientClose(id)
    \/ IngressRecv
    \/ \E s \in SockKeys : DialOk(s)
    \/ \E s \in SockKeys : DialFail(s)
    \/ \E s \in SockKeys : TargetData(s)
    \/ \E s \in SockKeys : TargetClose(s)
    \/ EgressRecv

NextEstablished == Exchange \/ FirstSignal \/ IngressSteps \/ EgressSteps

\* an established session, further sessions, and the sequence of one signal
SpecEstablished == InitEstablished /\ [][NextEstablished]_vars

----------------------------------------------------------------------------
(* Inputs of the byte-level specification *)

\* two ids as crypto.randomUUID().replace(/-/g, '') makes them
HexIdA == [i \in 1..32 |-> HexDigits[((i * 7) % 16) + 1]]
HexIdB == [i \in 1..32 |-> HexDigits[((i * 11 + 5) % 16) + 1]]

HostA == <<"1","2","7",".","0",".","0",".","1">>
HostB == <<"1","0",".","2","0","0",".","2","5","5",".","9">>

\* a payload of n bytes; its bytes look like header bytes
Payload(n) == [i \in 1..n |-> IF i % 2 = 1 THEN 1 ELSE 255]

\* the frames the byte-level specification draws from: Data with and without
\* payload, Disconnect, ProgramClose (empty host, port 0) and the unknown 0x02
FrameChoices ==
    { [cmd |-> CMD_DATA, clientId |-> HexIdA, data |-> Payload(n),
       targetHost |-> HostA, targetPort |-> 9000] : n \in {0, MaxData} }
    \cup
    { [cmd |-> CMD_DISCONNECT, clientId |-> HexIdB, data |-> <<>>,
       targetHost |-> HostB, targetPort |-> 22],
      [cmd |-> CMD_PROGRAM_CLOSE, clientId |-> HexIdA, data |-> <<>>,
       targetHost |-> <<>>, targetPort |-> 0],
      [cmd |-> CMD_CONNECT, clientId |-> HexIdB, data |-> Payload(MaxData),
       targetHost |-> HostB, targetPort |-> 22] }

\* createPacket applied to each frame of FrameChoices
EncodeFrame == [f \in FrameChoices |->
                  createPacket(f.cmd, f.clientId, f.data, f.targetHost, f.targetPort)]

RECURSIVE EncodeAll(_)
EncodeAll(fs) == IF fs = <<>> THEN <<>> ELSE EncodeFrame[Head(fs)] \o EncodeAll(Tail(fs))

\* a hand-made header announcing Ceiling + 1 payload bytes
OversizeHeader ==
    <<CMD_DATA>> \o CopyInto(BufferFromHex(HexIdA), 16) \o <<127, 0, 0, 1>>
    \o WriteUInt16BE(9000) \o WriteUInt32BE(Ceiling + 1)

OversizeBytes == [b \in BOOLEAN |-> IF b THEN OversizeHeader ELSE <<>>]

FrameSeqs == UNION { [1..n -> FrameChoices] : n \in 0..MaxFrames }

\* at most MaxFrames items on the link; the last may be the hand-made header
InitFrame ==
    /\ frames \in FrameSeqs
    /\ oversize \in BOOLEAN
    /\ oversize => Len(frames) < MaxFrames
    /\ wireBytes = EncodeAll(frames) \o OversizeBytes[oversize]
    /\ buffer = <<>>
    /\ packets = <<>>
    /\ SessionsIdle

\* serialPort.on('data', data => packetStream.write(data)) with a chunk of k bytes
SerialData(k) ==
    /\ k \in 1..Len(wireBytes)
    /\ \E r \in {Transform(buffer, SubSeq(wireBytes, 1, k))} :
       /\ buffer' = r.buffer
       /\ packets' = packets \o r.out
    /\ wireBytes' = SubSeq(wireBytes, k + 1, Len(wireBytes))
    /\ UNCHANGED <<frames, oversize, svars, hvars>>

NextFrame == \E k \in 1..((HEADER_LEN + MaxData) * MaxFrames) : SerialData(k)

SpecFrame == InitFrame /\ [][NextFrame]_vars

----------------------------------------------------------------------------
(* Byte-level properties *)

FrameLen(f) == HEADER_LEN + Len(f.data)

RECURSIVE PrefixLen(_)
\* bytes taken by the first n frames
PrefixLen(n) == IF n = 0 THEN 0 ELSE PrefixLen(n - 1) + FrameLen(frames[n])

AllBytes == EncodeAll(frames) \o OversizeBytes[oversize]

\* bytes read from the link so far
Fed == Len(AllBytes) - Len(wireBytes)

\* frames wholly read so far
NumComplete == Cardinality({ n \in 1..Len(frames) : PrefixLen(n) <= Fed })

SameFrame(pkt, f) ==
    /\ pkt.cmd = f.cmd
    /\ pkt.clientId = f.clientId
    /\ pkt.targetPort = f.targetPort
    /\ pkt.data = f.data
    /\ (f.targetHost # <<>> => pkt.targetHost = f.targetHost)

\* C1: whatever the chunking, the packets emitted are exactly the frames
\* wholly read so far, in order and field by field, and the buffer holds
\* exactly the bytes read after the last whole frame.
C1_RoundTrip ==
    /\ Len(packets) = NumComplete
    /\ \A i \in 1..Len(packets) : SameFrame(packets[i], frames[i])
    /\ buffer = SubSeq(AllBytes, PrefixLen(NumComplete) + 1, Fed)

C1_Witness ==
    /\ ~oversize
    /\ wireBytes = <<>>
    /\ Len(frames) = MaxFrames
    /\ Len(packets) = MaxFrames
    /\ packets[1].data # <<>>
    /\ packets[1].clientId # packets[MaxFrames].clientId

\* C8 (as claimed): the framer never keeps a header that announces more
\* than Ceiling payload bytes waiting in its buffer.
C8_OversizeNotAwaited ==
    ~(Len(buffer) >= HEADER_LEN /\ DataLengthAt(buffer) > Ceiling)

----------------------------------------------------------------------------
(* Session-level properties *)

IsPrefix(a, b) == Len(a) <= Len(b) /\ a = SubSeq(b, 1, Len(a))

\* the bytes the client of id has sent so far, in order
Sent(id) == [k \in 1..nSent[id] |-> k]

\* the sockets egress has dialled for id
SocketsOf(id) == {s \in SockKeys : s[1] = id /\ eSock[s].state # "none"}

\* C2 (as claimed): once every chunk a client has sent is framed on the
\* link, what a destination socket of its session has been written is the
\* client's byte stream up to some point: nothing lost, repeated or reordered.
C2_StreamPreserved ==
    \A id \in IdSet :
        emitted["I"].data[id] = nSent[id] =>
            \A s \in SocketsOf(id) : IsPrefix(written[s], Sent(id))

\* C3 (as claimed): Data frames for an id whose dial is in flight wait for
\* that dial: an id never has two dials in flight.
C3_OneDialInFlight ==
    \A id \in IdSet :
        Cardinality({s \in SocketsOf(id) : eSock[s].state = "connecting"}) <= 1

\* C4 (as claimed): an id has at most one live socket at egress, connecting
\* or connected.
C4_OneLiveSocket ==
    \A id \in IdSet :
        Cardinality({s \in SocketsOf(id) : eSock[s].state \in {"connecting", "open"}}) <= 1

\* C5 (as claimed): when the socket a side ended on the peer's Disconnect
\* closes, that side writes no Disconnect for its id.
C5_NoDisconnectEcho ==
    [][ /\ \A id \in IdSet :
              (id \in peerEnded["I"] /\ iSock[id] # "closed" /\ iSock'[id] = "closed")
                  => emitted'["I"].disc[id] = emitted["I"].disc[id]
        /\ \A s \in SockKeys :
              (s \in peerEnded["E"] /\ eSock[s].state # "closed" /\ eSock'[s].state = "closed")
                  => emitted'["E"].disc[s[1]] = emitted["E"].disc[s[1]] ]_vars

\* C6 (as claimed): a side writes at most one Disconnect frame per id.
C6_DisconnectOnce ==
    \A side \in Sides, id \in IdSet : emitted[side].disc[id] <= 1

\* C7 (as claimed): while its port is open, egress has written a Disconnect
\* for every dial that failed.
C7_FailedDialAnswered ==
    IsOpen("E") =>
        \A id \in IdSet :
            Cardinality({s \in SocketsOf(id) : eSock[s].state = "failed"})
                <= emitted["E"].disc[id]

KnownCmds == {CMD_DATA, CMD_DISCONNECT, CMD_PROGRAM_CLOSE}

\* the step handles the frame at the head of what side has written
Handles(side) == wire[side] # <<>> /\ Len(wire'[side]) < Len(wire[side])

\* C9: a step that handles a frame whose command is none of Data, Disconnect,
\* ProgramClose takes that frame off the link and nothing else: the frames
\* behind it stay in order, what the handling side has written is as it was,
\* and the tables, the sockets, what was written to them, the serial ports
\* and the shutdown invocations are unchanged.
C9_UnknownSkipped ==
    [][ \A side \in Sides :
            (Handles(side) /\ Head(wire[side]).cmd \notin KnownCmds) =>
                /\ wire'[side] = Tail(wire[side])
                /\ wire'[Peer(side)] = wire[Peer(side)]
                /\ UNCHANGED <<serial, listening, clientsByPort, iSock, iPort, clients,
                               eSock, sd, exitCode, written, iwritten, emitted, peerEnded>> ]_vars

\* egress has skipped an unknown command while the session of the id it
\* bore was established at both ends, and the link is empty again
C9_Witness ==
    /\ CMD_CONNECT \in warned["E"]
    /\ nSent[Ids[1]] > 0
    /\ wire = [s \in Sides |-> <<>>]
    /\ iSock[Ids[1]] = "open" /\ InTable(Ids[1])
    /\ HasClient(Ids[1]) /\ eSock[SocketOf(Ids[1])].state = "open"
    /\ written[SocketOf(Ids[1])] = Sent(Ids[1])

\* the invocations of gracefulShutdown a signal or an uncaught error started
\* on side while its port was open
LocalShutdowns(side) ==
    {j \in 1..Len(sd[side]) : sd[side][j].origin = "local" /\ sd[side][j].uart}

\* C10 (as claimed): a side has written one ProgramClose frame for each
\* shutdown started locally with its port open.
C10_LocalShutdownAnnounced ==
    \A side \in Sides : emitted[side].close = Cardinality(LocalShutdowns(side))

\* C11 (as claimed): the step in which a side handles a ProgramClose frame
\* starts a shutdown sequence on that side.
C11_ProgramCloseBeginsShutdown ==
    [][ \A side \in Sides :
            (Handles(side) /\ Head(wire[side]).cmd = CMD_PROGRAM_CLOSE) =>
                Len(sd'[Peer(side)]) > Len(sd[Peer(side)]) ]_vars

\* gracefulShutdown has been entered on side
Started(side) == \E j \in 1..Len(sd[side]) : sd[side][j].pc # "scheduled"

\* C12 (as claimed): once the shutdown sequence has started on a side, its
\* table gains no entry and egress starts no dial.
C12_NoNewSession ==
    [][ /\ Started("I") =>
              Range(AllIds(clientsByPort')) \subseteq Range(AllIds(clientsByPort))
        /\ Started("E") =>
              /\ {clients'[i].id : i \in 1..Len(clients')}
                     \subseteq {clients[i].id : i \in 1..Len(clients)}
              /\ \A s \in SockKeys :
                     eSock[s].state = "none" => eSock'[s].state = "none" ]_vars

\* C13 (as claimed): a side that has exited with status 0 has no shutdown
\* invocation one of whose timers fired.
C13_ExitZeroOnlyInTime ==
    \A side \in Sides :
        exitCode[side] = 0 => \A j \in 1..Len(sd[side]) : ~sd[side][j].expired

\* where invocation j of side is suspended, "none" before it exists
PcOf(insts, j) == IF j <= Len(insts) THEN insts[j].pc ELSE "none"

\* the Disconnect frames of the sequence's Disconnect step on side, one for
\* every session of the table, in the table's order
DisconnectsFor(side) ==
    IF side = "I"
    THEN [i \in 1..Len(AllIds(clientsByPort)) |-> IngressDisconnect(AllIds(clientsByPort)[i])]
    ELSE [i \in 1..Len(clients) |-> EgressDisconnect(clients[i].sock)]

TableEmpty(side) == IF side = "I" THEN AllIds(clientsByPort) = <<>> ELSE clients = <<>>

\* where an invocation is suspended before the Disconnect step, after having
\* written Disconnects, and after the sequence has gone on to end sockets
BeforeNotify(side) == IF side = "I" THEN {"none", "scheduled"} ELSE {"none", "afterPC"}
Notified == {"awaitDisc", "afterNotif"}
PastNotify == {"awaitClose", "awaitServers", "awaitSerial"}

\* C14 (as claimed): a shutdown sequence goes past its Disconnect step
\* without writing a Disconnect for every session of the table only when the
\* table is empty.
C14_DisconnectAlways ==
    [][ \A side \in Sides, j \in 1..MaxInputs :
            (PcOf(sd[side], j) \in BeforeNotify(side) /\ PcOf(sd'[side], j) \in PastNotify) =>
                TableEmpty(side) ]_vars

\* C14: a shutdown sequence that reaches its Disconnect step with the port
\* open and sessions in the table writes, in that step, one Disconnect frame
\* for every session of the table and does nothing else: no socket is ended
\* and the port is not closed; it goes on to end sockets and to close the
\* port only from there.  A sequence goes past the Disconnect step without
\* writing only when the port is not open or the table is empty.
C14_DisconnectBeforeClose ==
    [][ \A side \in Sides, j \in 1..MaxInputs :
            /\ (PcOf(sd[side], j) \in BeforeNotify(side) /\ PcOf(sd'[side], j) \in Notified) =>
                   /\ IsOpen(side) /\ ~TableEmpty(side)
                   /\ wire'[side] = wire[side] \o DisconnectsFor(side)
                   /\ UNCHANGED <<serial, iSock, eSock, clientsByPort, clients>>
            /\ (PcOf(sd[side], j) \in BeforeNotify(side) /\ PcOf(sd'[side], j) \in PastNotify) =>
                   (~IsOpen(side) \/ TableEmpty(side))
            /\ (PcOf(sd[side], j) \in Notified /\ PcOf(sd'[side], j) # PcOf(sd[side], j)) =>
                   PcOf(sd'[side], j) \in PastNotify ]_vars

\* egress has written ProgramClose, then a Disconnect for its one session,
\* and has gone on to end that session's socket, which has not closed yet
C14_Witness ==
    /\ Len(sd["E"]) = 1 /\ sd["E"][1].pc = "awaitClose"
    /\ sd["E"][1].wait = {<<Ids[1], 1>>}
    /\ eSock[<<Ids[1], 1>>].state = "ended"
    /\ emitted["E"].disc[Ids[1]] = 1
    /\ IsOpen("E")

\* a ProgramClose has been exchanged: egress has written one on a signal and
\* ingress has handled it
Exchanged ==
    /\ \E j \in 1..Len(sd["E"]) : sd["E"][j].origin = "local"
    /\ \E j \in 1..Len(sd["I"]) : sd["I"][j].origin = "remote"

\* the chunks of id that ingress had framed on the link when the first
\* shutdown sequence of egress started
HandedBefore(id) ==
    IF sd["E"] = <<>> THEN {}
    ELSE {k \in 1..sd["E"][1].handed[id] : k <= emitted["I"].data[id]}

\* C15 (as claimed): once a ProgramClose has been exchanged and both programs
\* have exited, every chunk that a client had handed to the tunnel before
\* the shutdown started has been written to a destination socket of its
\* session, or a destination socket of its session has been closed.
C15_Drained ==
    (Exchanged /\ ~Running("I") /\ ~Running("E")) =>
        \A id \in IdSet : \A k \in HandedBefore(id) :
            \/ \E s \in SocketsOf(id) : k \in Range(written[s])
            \/ \E s \in SocketsOf(id) : Destroyed(eSock[s].state)

\* C16 (as claimed): a side that has written a Disconnect frame for an id
\* writes no Data frame for that id afterwards.
C16_NoDataAfterDisconnect ==
    [][ \A side \in Sides, id \in IdSet :
            emitted'[side].data[id] > emitted[side].data[id] =>
                emitted[side].disc[id] = 0 ]_vars

\* the chunk numbers of the Data frames for id among the frames fs, in order
DataOn(fs, id) ==
    LET IsData(f) == f.cmd = CMD_DATA /\ f.clientId = id /\ f.data # <<>>
        ds == SelectSeq(fs, IsData)
    IN [i \in 1..Len(ds) |-> ds[i].data[1]]

Increasing(ns) == \A i, j \in 1..Len(ns) : i < j => ns[i] < ns[j]

C18_LinkErrorFatal ==
    [][ \A side \in Sides :
            used'.errors[side] > used.errors[side] =>
                Len(sd'[side]) > Len(sd[side]) ]_vars

\* C19 (as claimed): the step in which a chunk is read from the socket of a
\* session that is in the side's table writes one Data frame for that
\* session.
C19_NoSilentDrop ==
    [][ /\ \A id \in IdSet :
               (nSent'[id] > nSent[id] /\ InTable(id)) =>
                   emitted'["I"].data[id] = emitted["I"].data[id] + 1
        /\ \A id \in IdSet :
               (nReply'[id] > nReply[id] /\ HasClient(id)) =>
                   emitted'["E"].data[id] = emitted["E"].data[id] + 1 ]_vars

\* the side's table has an entry for id
TableHas(side, id) == IF side = "I" THEN InTable(id) ELSE HasClient(id)

\* C20: a step that handles a Disconnect frame writes no frame; when the id
\* is not in the handling side's table it changes no table, no socket and
\* nothing else but the link it read from; and it leaves a state in which
\* handling a Disconnect for the same id again changes neither the sockets
\* nor the table.
C20_DisconnectIdempotent ==
    [][ \A w \in Sides, id \in IdSet :
            (Handles(w) /\ Head(wire[w]).cmd = CMD_DISCONNECT /\ Head(wire[w]).clientId = id) =>
                /\ wire'[Peer(w)] = wire[Peer(w)]
                /\ UNCHANGED emitted
                /\ ~TableHas(Peer(w), id) =>
                       UNCHANGED <<clientsByPort, clients, iSock, eSock, written, iwritten,
                                   peerEnded, sd, serial, exitCode, listening>>
                /\ IF w = "E"
                   THEN IngressEnded(id)' = iSock' /\ IngressDeleted(id)' = clientsByPort'
                   ELSE EgressEnded(id)' = eSock' /\ EgressDeleted(id)' = clients' ]_vars

\* after its target socket had closed, egress has handled the Disconnect
\* that ingress wrote for the same session, whose id it no longer knew
C20_Witness ==
    /\ emitted["I"].disc[Ids[1]] = 1 /\ emitted["E"].disc[Ids[1]] = 1
    /\ wire["I"] = <<>>
    /\ peerEnded["E"] = {}
    /\ eSock[<<Ids[1], 1>>].state = "closed"
    /\ ~HasClient(Ids[1])

EmptyFrameBytes == createPacket(CMD_DATA, HexIdA, <<>>, HostA, 9000)

\* _transform applied to those bytes, and to all of them but the last
EmptyFrameDecoded ==
    /\ Len(EmptyFrameBytes) = HEADER_LEN
    /\ Transform(<<>>, EmptyFrameBytes).buffer = <<>>
    /\ Len(Transform(<<>>, EmptyFrameBytes).out) = 1
    /\ Transform(<<>>, EmptyFrameBytes).out[1].cmd = CMD_DATA
    /\ Transform(<<>>, EmptyFrameBytes).out[1].data = <<>>
    /\ Transform(<<>>, SubSeq(EmptyFrameBytes, 1, HEADER_LEN - 1)).out = <<>>

\* C22: a Data frame without payload is HEADER_LEN bytes, from which the
\* framer emits one packet with empty data and keeps nothing, and from one
\* byte less it emits none; a step in which egress handles such a frame for
\* an id of its table whose socket is open takes the frame from the link and
\* changes nothing else: what has been written to the socket, the socket,
\* the table and what egress has written to the link are as they were.
C22_EmptyDataIsNoOp ==
    [][ /\ EmptyFrameDecoded
        /\ \A id \in IdSet :
               ( /\ Handles("I")
                 /\ Head(wire["I"]).cmd = CMD_DATA /\ Head(wire["I"]).clientId = id
                 /\ Head(wire["I"]).data = <<>>
                 /\ HasClient(id) /\ eSock[SocketOf(id)].state = "open" ) =>
                   /\ wire'["E"] = wire["E"]
                   /\ UNCHANGED <<written, eSock, clients, emitted, clientsByPort, iSock,
                                  iwritten, sd, serial, exitCode>> ]_vars

\* egress has handled the frame without payload: the session is in its
\* table with its socket open, which has been written the one chunk the
\* client sent
C22_Witness ==
    /\ used.foreign = 1 /\ warned = [s \in Sides |-> {}]
    /\ wire = [s \in Sides |-> <<>>]
    /\ HasClient(Ids[1]) /\ eSock[SocketOf(Ids[1])].state = "open"
    /\ written[SocketOf(Ids[1])] = <<1>>

RECURSIVE EmittedLen(_)
\* the bytes of the first n packets emitted
EmittedLen(n) == IF n = 0 THEN 0 ELSE EmittedLen(n - 1) + HEADER_LEN + Len(packets[n].data)

\* C23: after every call of _transform the buffer holds less than one
\* complete frame: fewer than HEADER_LEN bytes, or fewer than HEADER_LEN plus
\* the data length its header announces; the bytes of every packet emitted
\* are gone from it, and it starts where a frame starts: it is exactly what
\* has been read from the link behind the packets emitted.
C23_BufferBelowOneFrame ==
    /\ \/ Len(buffer) < HEADER_LEN
       \/ Len(buffer) < HEADER_LEN + DataLengthAt(buffer)
    /\ EmittedLen(Len(packets)) + Len(buffer) = Fed
    /\ buffer = SubSeq(AllBytes, EmittedLen(Len(packets)) + 1, Fed)
    /\ \E n \in 0..Len(frames) : PrefixLen(n) = EmittedLen(Len(packets))

\* a packet has been emitted and the buffer holds the whole header of the
\* next frame, whose payload has not been read yet
C23_Witness ==
    /\ ~oversize
    /\ Len(packets) >= 1
    /\ Len(buffer) >= HEADER_LEN
    /\ wireBytes # <<>>

\* C24: every Data and Disconnect frame that ingress has written for a
\* session, from the data handler, the close handler or the shutdown
\* sequence, carries the remote host and port of the mapping entry of the
\* port on which the session's client was accepted.
C24_FramesCarryMapping ==
    \A i \in 1..Len(wire["I"]) :
        LET f == wire["I"][i] IN
        f.cmd \in {CMD_DATA, CMD_DISCONNECT} =>
            /\ f.clientId \in IdSet
            /\ iPort[f.clientId] \in LocalPorts
            /\ f.targetHost = MappingOf(iPort[f.clientId]).remoteHost
            /\ f.targetPort = MappingOf(iPort[f.clientId]).remotePort

\* two sessions accepted on different ports: a Data frame of the first and,
\* from the shutdown sequence, the Disconnect frames of both are on the link,
\* each with its own port's pair
C24_Witness ==
    /\ sd["I"] # <<>>
    /\ iPort[Ids[1]] # iPort[Ids[2]] /\ iPort[Ids[2]] \in LocalPorts
    /\ \E i, j, k \in 1..Len(wire["I"]) :
          /\ wire["I"][i].cmd = CMD_DATA /\ wire["I"][i].clientId = Ids[1]
          /\ wire["I"][j].cmd = CMD_DISCONNECT /\ wire["I"][j].clientId = Ids[1]
          /\ wire["I"][k].cmd = CMD_DISCONNECT /\ wire["I"][k].clientId = Ids[2]
          /\ wire["I"][k].targetHost # wire["I"][i].targetHost

\* C25 (as claimed): egress dials at most once for an id; in particular a
\* step never starts a dial for an id that has a socket already closed or
\* ended by the peer's Disconnect.
C25_NoDialAfterDestroy ==
    [][\A s \in SockKeys :
          (eSock[s].state = "none" /\ eSock'[s].state = "connecting") =>
              \A t \in SocketsOf(s[1]) : eSock[t].state \notin {"closed", "ended"}]_vars

\* the client of id has closed, its Disconnect frame is on the link, and
\* egress holds the session of id with an open socket
ClientClosedEstablished(id) ==
    /\ iSock[id] = "closed"
    /\ HasClient(id) /\ eSock[SocketOf(id)].state = "open"
    /\ \E i \in 1..Len(wire["I"]) :
          wire["I"][i].cmd = CMD_DISCONNECT /\ wire["I"][i].clientId = id

\* neither table has id and every socket dialled for id is closed
TornDown(id) ==
    /\ ~InTable(id)
    /\ ~HasClient(id)
    /\ iSock[id] = "closed"
    /\ \A s \in SocketsOf(id) : eSock[s].state \in {"closed", "failed"}

\* C26 (as claimed): after the client of an established session has closed,
\* the frames being delivered and the callbacks run, eventually neither
\* table has the session's id and the sockets of the session are closed.
C26_TeardownConverges ==
    \A id \in IdSet : ClientClosedEstablished(id) ~> TornDown(id)

\* what the two programs hold for the session id: the port map that has it
\* and its client socket at ingress, its entry and the sockets dialled for
\* it at egress, the bytes written to its sockets, and its frames on the
\* link in either direction
SessionState(id) ==
    [ports    |-> {clientsByPort[i].localPort :
                      i \in {i \in 1..Len(clientsByPort) : id \in Range(clientsByPort[i].clients)}},
     iSock    |-> iSock[id],
     iPort    |-> iPort[id],
     entry    |-> IF HasClient(id) THEN <<SocketOf(id)>> ELSE <<>>,
     eSock    |-> [n \in 1..MaxInputs |-> eSock[<<id, n>>]],
     written  |-> [n \in 1..MaxInputs |-> written[<<id, n>>]],
     iwritten |-> iwritten[id],
     toEgress |-> SelectSeq(wire["I"], LAMBDA f : f.clientId = id),
     toIngress |-> SelectSeq(wire["E"], LAMBDA f : f.clientId = id)]

\* C27: a step of the two programs (a frame handled, a chunk, a close or an
\* error of a socket, the outcome of a dial) changes what is held for at most
\* one session: the table entry, the sockets and the frames on the link of
\* every other session stay as they were.
C27_OtherSessionsUntouched ==
    [][\E A \in IdSet : \A B \in IdSet \ {A} : SessionState(B)' = SessionState(B)]_vars

\* the first session has been closed by its client and its socket at egress
\* has closed, while the second, accepted on the same port, is in both
\* tables with its sockets open
C27_Witness ==
    /\ iSock[Ids[1]] = "closed" /\ ~InTable(Ids[1])
    /\ ~HasClient(Ids[1]) /\ eSock[<<Ids[1], 1>>].state = "closed"
    /\ iPort[Ids[2]] = iPort[Ids[1]]
    /\ InTable(Ids[2]) /\ iSock[Ids[2]] = "open"
    /\ HasClient(Ids[2]) /\ eSock[SocketOf(Ids[2])].state = "open"

\* C28 (as claimed): a step in which ingress handles a Disconnect frame for
\* an id that a port's map holds leaves no port's map holding that id.
C28_DisconnectRemovesEntry ==
    [][\A id \in IdSet :
          (Handles("E") /\ Head(wire["E"]).cmd = CMD_DISCONNECT
                        /\ Head(wire["E"]).clientId = id /\ InTable(id)) =>
              ~InTable(id)']_vars

\* the socket of side that an invocation awaits under the key x
AwaitedSocket(side, x) == IF side = "I" THEN iSock[x] ELSE eSock[x].state

\* C29: once gracefulShutdown has been entered on a side, the process of
\* that side eventually exits, given that timers fire and that write and
\* close callbacks run; and an invocation stops awaiting the close of a
\* socket only when the socket has closed or has been destroyed.
C29_ShutdownTerminates ==
    /\ \A side \in Sides : Started(side) ~> ~Running(side)
    /\ [][\A side \in Sides, j \in 1..MaxInputs :
              (PcOf(sd[side], j) = "awaitClose" /\ Running(side)') =>
                  \A x \in sd[side][j].wait \ sd'[side][j].wait :
                      Destroyed(AwaitedSocket(side, x)')]_vars

\* both programs have exited after one signal, each having destroyed the
\* session's socket on its 3 s timer
C29_Witness ==
    /\ ~Running("I") /\ ~Running("E")
    /\ used.signals = 1
    /\ iSock[Ids[1]] = "destroyed"
    /\ eSock[<<Ids[1], 1>>].state = "destroyed"
    /\ \E j \in 1..Len(sd["I"]) : sd["I"][j].expired
    /\ \E j \in 1..Len(sd["E"]) : sd["E"][j].expired

\* the step enters gracefulShutdown on side: a signal handler calls it, or
\* the setImmediate callback of a ProgramClose does
Enters(side) ==
    \/ /\ Len(sd'[side]) > Len(sd[side])
       /\ sd'[side][Len(sd'[side])].pc # "scheduled"
    \/ \E j \in 1..Len(sd[side]) :
          /\ sd[side][j].pc = "scheduled"
          /\ j <= Len(sd'[side]) /\ sd'[side][j].pc # "scheduled"

\* C30 (as claimed): a step that enters gracefulShutdown on a side where it
\* has been entered before writes no frame, and neither closes the serial
\* port nor exits.
C30_ShutdownOnce ==
    [][\A side \in Sides :
          (Started(side) /\ Running(side) /\ Enters(side)) =>
              /\ emitted'[side] = emitted[side]
              /\ wire'[side] = wire[side]
              /\ serial'[side] = serial[side]
              /\ exitCode'[side] = exitCode[side]]_vars

\* C31 (as claimed): a step in which a target socket closes while the
\* table's entry for its id refers to another socket leaves that entry in
\* the table, still referring to the other socket.
C31_CloseKeepsOtherEntry ==
    [][\A s \in SockKeys :
          (/\ eSock[s].state # "closed" /\ eSock'[s].state = "closed"
           /\ HasClient(s[1]) /\ SocketOf(s[1]) # s) =>
              /\ HasClient(s[1])'
              /\ SocketOf(s[1])' = SocketOf(s[1])]_vars

\* C32 (as claimed): a step in which a side handles a Data frame for an id
\* whose socket it holds in its table and has ended drops the frame: the
\* sockets, the tables and what was written to the sockets stay as they were.
C32_DataAfterEndDropped ==
    [][\A id \in IdSet :
          /\ (/\ Handles("E") /\ Head(wire["E"]).cmd = CMD_DATA
               /\ Head(wire["E"]).clientId = id
               /\ InTable(id) /\ iSock[id] = "ended") =>
                  UNCHANGED <<iSock, clientsByPort, iwritten>>
          /\ (/\ Handles("I") /\ Head(wire["I"]).cmd = CMD_DATA
               /\ Head(wire["I"]).clientId = id
               /\ HasClient(id) /\ eSock[SocketOf(id)].state = "ended") =>
                  UNCHANGED <<eSock, clients, written>>]_vars

====
